---- MODULE Spec2Model ----
(***************************************************************************)
(* State-machine model of hevc_processor.c: the decode / crop-scale /      *)
(* x265 encode / (raw HEVC | fragmented MP4) pipeline driven by main().    *)
(* The decoder (libavcodec), the encoder (x265) and the container writer   *)
(* (libavformat) are external; every call to one of them is modelled by    *)
(* a nondeterministic choice over the results its interface allows, and    *)
(* the calls made to the container writer are logged in mux_calls.         *)
(***************************************************************************)
EXTENDS Integers, Sequences, FiniteSets, TLC

(* ---------------------------- program constants ------------------------ *)
INPUT_WIDTH == 5760
INPUT_HEIGHT == 2880
OUTPUT_WIDTH == 200
OUTPUT_HEIGHT == 200
FRAME_RATE == 50
OUTPUT_TIMEBASE == 48000

\* AV_NOPTS_VALUE is INT64_MIN in libavutil; any value no real timestamp
\* takes serves, and this one fits the model checker's integers.
AV_NOPTS_VALUE == -(2^30)

(* ------------------------------- bounds -------------------------------- *)
\* compressed input units av_read_frame delivers before end of input
MaxPackets == 3

\* largest region or destination extent, beside those of the program, for
\* which the mapping of the resampler is computed
MaxExtent == 6

\* output frames followed from each starting value of frame_count when the
\* timestamp product is computed by itself
MaxFrames == 40

(* --------------------------- environment sets -------------------------- *)
\* Timestamps the demuxer / decoder may attach to a packet or a frame.
PtsVals == {AV_NOPTS_VALUE, 3600}

\* NAL units are byte sequences; the type code is bits 1-6 of byte 0.
VpsUnit == <<64, 1>>
IdrUnit == <<38>>
TrailUnit == <<2>>
SpsUnit == <<66, 1, 1>>
PpsUnit == <<68>>

\* Coded picture sizes (width, height) an input stream may have: the size the
\* program is built for and a smaller one.
FrameSizes == {<<5760, 2880>>, <<1920, 1080>>}

\* Unit sets x265_encoder_encode may hand back for one access unit.
AccessUnits == {<<TrailUnit>>, <<VpsUnit, IdrUnit>>}

\* Unit sets x265_encoder_headers may hand back: none, or the parameter sets.
HeaderSets == {<<>>, <<VpsUnit, SpsUnit, PpsUnit>>}

\* Every pointer field of ProcessingContext is NULL, points to a live
\* object, or dangles (freed but not reset).
NULL == "NULL"
LIVE == "live"
DANGLING == "dangling"

(* ------------------------------ helpers -------------------------------- *)
RECURSIVE Flatten(_)
Flatten(units) ==
    IF units = <<>> THEN <<>> ELSE Head(units) \o Flatten(Tail(units))

\* main: timestamp_increment
timestamp_increment(skip) ==
    IF skip = 1 THEN OUTPUT_TIMEBASE \div (FRAME_RATE \div 2)
                ELSE OUTPUT_TIMEBASE \div FRAME_RATE

\* A plausible slip: the encoder is given the full rate in both modes.
output_fps_full(skip) == FRAME_RATE

\* init_encoder: output_fps
output_fps(skip) == IF skip = 1 THEN FRAME_RATE \div 2 ELSE FRAME_RATE

\* main: should_process
should_process(skip, in_count) == ~(skip = 1 /\ in_count % 2 = 1)

\* main: the informational input timestamp of a frame
input_pts_of(frame_pts, p_pts, p_dts, in_count) ==
    IF frame_pts # AV_NOPTS_VALUE THEN frame_pts
    ELSE IF p_pts # AV_NOPTS_VALUE THEN p_pts
    ELSE IF p_dts # AV_NOPTS_VALUE THEN p_dts
    ELSE in_count

\* A plausible slip: the output timestamp taken from the source timestamp.
FrameTimestampsFromInput(frame_pts, p_pts, p_dts, in_count, f_count, inc) ==
    LET ip == input_pts_of(frame_pts, p_pts, p_dts, in_count)
    IN  [input_pts |-> ip, output_pts |-> ip]

\* main: input_pts (logged) and output_pts (submitted) of one frame
FrameTimestamps(frame_pts, p_pts, p_dts, in_count, f_count, inc) ==
    [input_pts  |-> input_pts_of(frame_pts, p_pts, p_dts, in_count),
     output_pts |-> f_count * inc]

\* main: the keyframe scan over the units of one encode result
nal_type(unit) == (unit[1] \div 2) % 64
is_keyframe(units) ==
    \E i \in 1..Len(units) : nal_type(units[i]) >= 16 /\ nal_type(units[i]) <= 21

\* A plausible slip: the three-byte start code named in the source comment.
RECURSIVE RawBytesShortCode(_)
RawBytesShortCode(units) ==
    IF units = <<>> THEN <<>>
    ELSE <<0, 0, 1>> \o Head(units) \o RawBytesShortCode(Tail(units))

\* main: raw-mode write of one unit set, start code before every unit
StartCode == <<0, 0, 0, 1>>
RECURSIVE RawBytes(_)
RawBytes(units) ==
    IF units = <<>> THEN <<>>
    ELSE StartCode \o Head(units) \o RawBytes(Tail(units))

\* A plausible slip: the length is stored low byte first.
LengthPrefixLowFirst(size) ==
    << size % 256, (size \div 256) % 256,
       (size \div 65536) % 256, (size \div 16777216) % 256 >>

\* write_hevc_headers_to_mp4: one unit as 4-byte big-endian length + payload
LengthPrefix(size) ==
    << (size \div 16777216) % 256, (size \div 65536) % 256,
       (size \div 256) % 256, size % 256 >>
RECURSIVE LengthPrefixed(_)
LengthPrefixed(units) ==
    IF units = <<>> THEN <<>>
    ELSE LengthPrefix(Len(Head(units))) \o Head(units) \o LengthPrefixed(Tail(units))

\* write_nals_to_mp4: npts is ctx->next_pts, calls the calls made to the
\* container writer so far; outcome is what av_malloc and
\* av_interleaved_write_frame do ("ok", "enomem", "eio"). The call record
\* keeps, beside the packet's bytes, the units they were copied from.
write_nals_to_mp4(npts, calls, units, pts, key, outcome) ==
    IF units = <<>> THEN [next_pts |-> npts, calls |-> calls, ret |-> 0]
    ELSE IF outcome = "enomem" THEN [next_pts |-> npts, calls |-> calls, ret |-> -1]
    ELSE [next_pts |-> pts,
          calls |-> Append(calls, [op |-> "write_frame", pts |-> pts, dts |-> pts,
                                   key |-> key, data |-> Flatten(units),
                                   units |-> units,
                                   ret |-> IF outcome = "ok" THEN 0 ELSE -1]),
          ret |-> IF outcome = "ok" THEN 0 ELSE -1]

WriteOutcomes == {"ok", "enomem", "eio"}

(* ------------------------------- state --------------------------------- *)
VARIABLES
    skip_frames,        \* main: skip_frames (argv[3] = "skip")
    mp4_output,         \* main: mp4_output (output file ends in .mp4)
    pc,                 \* position of main
    retval,             \* value main returns once cleanup has run
    ctx,                \* ProcessingContext
    frame_count,        \* main: frame_count
    input_frame_count,  \* main: input_frame_count
    nals,               \* main: nals / nal_count of the last encoder call
    pkt_pts,            \* main: pkt_pts of the packet being decoded
    pkt_dts,            \* main: pkt_dts of the packet being decoded
    pkts_read,          \* input units av_read_frame has delivered
    video_pkts,         \* of these, the units of the video stream (one frame each)
    dec_held,           \* frames sent to the decoder and not yet received
    enc_held,           \* frames submitted to the encoder and not yet output
    mux_calls,          \* calls made to the container writer, in order
    out_file,           \* bytes written to the raw output file
    submitted,          \* pictures handed to x265_encoder_encode, in order
    decoded_log,        \* per decoded frame, in order: "process" or "drop"
    returned,           \* the unit sets the encoder has handed back, in order
    stdout_pts,         \* the "Input PTS" of the last progress line printed
    tally,              \* counts: failed encodes, failed sink writes, decode errors,
                        \* flush results, container calls made before the flush;
                        \* and the startup step that failed, if one did
    released,           \* resources released, in order
    twin,               \* the same run fed other source timestamps
    probe               \* the function under study and its arguments, in the
                        \* specifications that study one function by itself

vars == << skip_frames, mp4_output, pc, retval, ctx, frame_count,
           input_frame_count, nals, pkt_pts, pkt_dts, pkts_read, video_pkts,
           dec_held, enc_held, mux_calls, out_file, submitted, decoded_log, returned,
           stdout_pts, tally, released, twin, probe >>

config == << skip_frames, mp4_output, probe >>
locals == << frame_count, input_frame_count, nals, pkt_pts, pkt_dts >>
source == << pkts_read, video_pkts, dec_held >>
sinks  == << mux_calls, out_file >>
logs    == << submitted, decoded_log, returned, stdout_pts >>
history == << submitted, decoded_log, returned, stdout_pts, tally >>

\* main: ProcessingContext ctx = {0}
ZeroCtx ==
    [ fmt_ctx |-> NULL, decoder_ctx |-> NULL, frame |-> NULL, pkt |-> NULL,
      sws_ctx |-> NULL, scaled_buffer |-> NULL,
      encoder |-> NULL, encoder_params |-> NULL, enc_pic |-> NULL,
      output_file |-> NULL, ofmt_ctx |-> NULL, pb |-> NULL,
      extradata |-> NULL, extradata_bytes |-> <<>>, codecpar_extradata |-> <<>>,
      pts_offset |-> 0, next_pts |-> 0,
      fps |-> 0, sliceType |-> "NONE", pic_pts |-> 0,
      width |-> 0, height |-> 0,
      scaled_size |-> 0, planes |-> << >>, stride |-> << >> ]

InitRun ==
    /\ skip_frames \in {0, 1}
    /\ mp4_output \in {0, 1}
    /\ pc = "init_decoder"
    /\ retval = 0
    /\ ctx = ZeroCtx
    /\ frame_count = 0
    /\ input_frame_count = 0
    /\ nals = <<>>
    /\ pkt_pts = AV_NOPTS_VALUE
    /\ pkt_dts = AV_NOPTS_VALUE
    /\ pkts_read = 0
    /\ video_pkts = 0
    /\ dec_held = 0
    /\ enc_held = 0
    /\ mux_calls = <<>>
    /\ out_file = <<>>
    /\ submitted = <<>>
    /\ decoded_log = <<>>
    /\ returned = <<>>
    /\ stdout_pts = AV_NOPTS_VALUE
    /\ tally = [encode |-> 0, sink |-> 0, decode |-> 0, flushed |-> 0, eof_calls |-> 0,
                failed |-> "none"]
    /\ released = <<>>
    /\ twin = [submitted |-> <<>>, calls |-> <<>>, next_pts |-> 0,
               stdout_pts |-> AV_NOPTS_VALUE]

\* no function is studied by itself in a run of main
NoProbe == [kind |-> "none"]

Init == InitRun /\ probe = NoProbe

\* main: "cleanup(&ctx); return 1;" after the startup step `step` has failed
Abort(step) ==
    /\ pc' = "cleanup"
    /\ retval' = 1
    /\ tally' = [tally EXCEPT !.failed = step]

(* --------------------------- initialisation ---------------------------- *)
\* init_decoder acquires its resources in this order and returns -1 at the
\* first step that fails, leaving what it holds to cleanup.
DecoderSteps ==
    << "open_input", "stream_info", "video_stream", "find_decoder", "alloc_context",
       "parameters", "open_codec", "alloc_frame", "alloc_packet", "sws_context",
       "scaled_buffer" >>

\* The ProcessingContext fields that are set once step number n has succeeded.
DecoderFieldAfter ==
    [ fmt_ctx |-> 1, decoder_ctx |-> 5, frame |-> 8, pkt |-> 9, sws_ctx |-> 10,
      scaled_buffer |-> 11 ]

\* init_decoder, having passed its first `done` steps
init_decoder_ctx(c, done) ==
    [ f \in DOMAIN c |->
        IF f \in DOMAIN DecoderFieldAfter /\ DecoderFieldAfter[f] <= done
        THEN LIVE ELSE c[f] ]

\* avcodec_parameters_to_context (step 6) gives the decoder the coded picture
\* size of the stream; nothing in init_decoder looks at it
decoder_dimensions(c, done, size) ==
    IF done >= 6 THEN [c EXCEPT !.width = size[1], !.height = size[2]] ELSE c

\* init_decoder: scaled_y_size + 2 * scaled_uv_size, the bytes asked of malloc
scaled_buffer_size ==
    LET scaled_y_size  == OUTPUT_WIDTH * OUTPUT_HEIGHT
        scaled_uv_size == scaled_y_size \div 4
    IN  scaled_y_size + 2 * scaled_uv_size

\* init_decoder: the last step (11) allocates the scaled buffer
allocate_scaled_buffer(c, done) ==
    IF done >= 11 THEN [c EXCEPT !.scaled_size = scaled_buffer_size] ELSE c

init_decoder ==
    /\ pc = "init_decoder"
    /\ \E done \in 0..Len(DecoderSteps), size \in FrameSizes :
          /\ ctx' = allocate_scaled_buffer(
                       decoder_dimensions(init_decoder_ctx(ctx, done), done, size), done)
          /\ IF done = Len(DecoderSteps)
             THEN pc' = "init_encoder" /\ UNCHANGED << retval, tally >>
             ELSE Abort("init_decoder")
    /\ UNCHANGED << config, locals, source, enc_held, sinks, logs, released, twin >>

\* init_encoder
init_encoder ==
    /\ pc = "init_encoder"
    /\ \/ \* x265_param_alloc fails
          /\ Abort("init_encoder")
          /\ UNCHANGED << ctx, released >>
       \/ \* x265_encoder_open fails: the parameters are freed, not reset
          /\ ctx' = [ctx EXCEPT !.encoder_params = DANGLING,
                                !.fps = output_fps(skip_frames)]
          /\ released' = Append(released, "encoder_params")
          /\ Abort("init_encoder")
       \/ \* success: x265_picture_init leaves sliceType at X265_TYPE_AUTO
          /\ ctx' = [ctx EXCEPT !.encoder_params = LIVE, !.encoder = LIVE,
                                !.enc_pic = LIVE, !.sliceType = "AUTO",
                                !.fps = output_fps(skip_frames)]
          /\ pc' = "init_output"
          /\ UNCHANGED << retval, tally, released >>
    /\ UNCHANGED << config, locals, source, enc_held, sinks, logs, twin >>

\* init_mp4_muxer
init_mp4_muxer ==
    /\ pc = "init_output"
    /\ mp4_output = 1
    /\ \/ \* avformat_alloc_output_context2 fails
          /\ Abort("init_output")
          /\ UNCHANGED ctx
       \/ \* avformat_new_stream fails
          /\ ctx' = [ctx EXCEPT !.ofmt_ctx = LIVE]
          /\ Abort("init_output")
       \/ \* avio_open fails
          /\ ctx' = [ctx EXCEPT !.ofmt_ctx = LIVE]
          /\ Abort("init_output")
       \/ \* success
          /\ ctx' = [ctx EXCEPT !.ofmt_ctx = LIVE, !.pb = LIVE,
                                !.extradata = NULL, !.next_pts = 0,
                                !.pts_offset = AV_NOPTS_VALUE]
          /\ pc' = "headers"
          /\ UNCHANGED << retval, tally >>
    /\ UNCHANGED << config, locals, source, enc_held, sinks, logs, released, twin >>

\* main: fopen of the raw output file
OpenRawOutput ==
    /\ pc = "init_output"
    /\ mp4_output = 0
    /\ \/ \* fopen fails
          /\ Abort("init_output")
          /\ UNCHANGED ctx
       \/ /\ ctx' = [ctx EXCEPT !.output_file = LIVE]
          /\ pc' = "headers"
          /\ UNCHANGED << retval, tally >>
    /\ UNCHANGED << config, locals, source, enc_held, sinks, logs, released, twin >>

(* ------------------------------- headers ------------------------------- *)
\* A plausible slip: the result of x265_encoder_headers is not tested.
x265_encoder_headers_unchecked ==
    /\ pc = "headers"
    /\ pc' = "write_headers"
    /\ \/ \* ret < 0
          /\ tally' = [tally EXCEPT !.failed = "headers"]
          /\ UNCHANGED << nals, returned >>
       \/ \E units \in HeaderSets :
             /\ nals' = units
             /\ returned' = Append(returned, units)
             /\ UNCHANGED tally
    /\ UNCHANGED << config, retval, ctx, frame_count, input_frame_count, pkt_pts, pkt_dts,
                    source, enc_held, sinks, submitted, decoded_log, stdout_pts,
                    released, twin >>

\* main: x265_encoder_headers
x265_encoder_headers ==
    /\ pc = "headers"
    /\ \/ \* ret < 0
          /\ Abort("headers")
          /\ UNCHANGED << nals, returned >>
       \/ \E units \in HeaderSets :
             /\ nals' = units
             /\ returned' = Append(returned, units)
             /\ pc' = "write_headers"
             /\ UNCHANGED << retval, tally >>
    /\ UNCHANGED << config, ctx, frame_count, input_frame_count, pkt_pts, pkt_dts,
                    source, enc_held, sinks, submitted, decoded_log, stdout_pts,
                    released, twin >>

\* write_hevc_headers_to_mp4
write_hevc_headers_to_mp4 ==
    /\ pc = "write_headers"
    /\ mp4_output = 1
    /\ \/ \* no units: return 0 before anything is written
          /\ nals = <<>>
          /\ pc' = "read"
          /\ UNCHANGED << retval, tally, ctx, mux_calls, released >>
       \/ \* av_mallocz of ctx->extradata fails
          /\ nals # <<>>
          /\ Abort("write_headers")
          /\ UNCHANGED << ctx, mux_calls, released >>
       \/ \* av_mallocz of codecpar->extradata fails
          /\ nals # <<>>
          /\ ctx' = [ctx EXCEPT !.extradata = NULL,
                                !.extradata_bytes = LengthPrefixed(nals)]
          /\ released' = Append(released, "extradata")
          /\ Abort("write_headers")
          /\ UNCHANGED mux_calls
       \/ \* avformat_write_header is called
          /\ nals # <<>>
          /\ ctx' = [ctx EXCEPT !.extradata = LIVE,
                                !.extradata_bytes = LengthPrefixed(nals),
                                !.codecpar_extradata = LengthPrefixed(nals)]
          /\ \E r \in {0, -1} :
                /\ mux_calls' = Append(mux_calls,
                      [op |-> "write_header", extradata |-> ctx'.codecpar_extradata,
                       ret |-> r])
                /\ IF r < 0 THEN Abort("write_headers")
                            ELSE pc' = "read" /\ UNCHANGED << retval, tally >>
          /\ UNCHANGED released
    /\ twin' = [twin EXCEPT !.calls = IF mux_calls' = mux_calls THEN @
                                      ELSE Append(@, mux_calls'[Len(mux_calls')])]
    /\ UNCHANGED << config, locals, source, enc_held, out_file, logs >>

\* main: the raw-mode header loop
WriteHeadersRaw ==
    /\ pc = "write_headers"
    /\ mp4_output = 0
    /\ out_file' = out_file \o RawBytes(nals)
    /\ pc' = "read"
    /\ UNCHANGED << config, retval, ctx, locals, source, enc_held, mux_calls, history,
                    released, twin >>

(* ------------------------------ main loop ------------------------------ *)
\* main: av_read_frame reports end of input (or a read error)
ReadEof ==
    /\ pc = "read"
    /\ pc' = "flush"
    /\ tally' = [tally EXCEPT !.eof_calls = Len(mux_calls)]
    /\ UNCHANGED << config, retval, ctx, locals, source, enc_held, sinks, submitted,
                    decoded_log, returned, stdout_pts, released, twin >>

\* main: av_read_frame delivers a unit of another stream
ReadOtherStream ==
    /\ pc = "read"
    /\ pkts_read < MaxPackets
    /\ pkts_read' = pkts_read + 1
    /\ UNCHANGED << config, pc, retval, ctx, locals, video_pkts, dec_held, enc_held,
                    sinks, history, released, twin >>

\* main: pkt_pts and pkt_dts are locals of the body of the read loop; when
\* main is back at av_read_frame they have gone out of scope
LeaveLoopBody ==
    /\ pkt_pts' = AV_NOPTS_VALUE
    /\ pkt_dts' = AV_NOPTS_VALUE

\* main: av_read_frame delivers a unit of the video stream, which holds one
\* coded frame, and avcodec_send_packet takes it or fails
ReadVideoPacket ==
    /\ pc = "read"
    /\ pkts_read < MaxPackets
    /\ pkts_read' = pkts_read + 1
    /\ video_pkts' = video_pkts + 1
    /\ \/ \* send fails: the unit is dropped
          /\ pc' = pc
          /\ tally' = [tally EXCEPT !.decode = @ + 1]
          /\ LeaveLoopBody
          /\ UNCHANGED dec_held
       \/ /\ pc' = "receive"
          /\ \E p \in PtsVals, d \in PtsVals :
                /\ pkt_pts' = p
                /\ pkt_dts' = d
          /\ dec_held' = dec_held + 1
          /\ UNCHANGED tally
    /\ UNCHANGED << config, retval, ctx, frame_count, input_frame_count, nals,
                    enc_held, sinks, submitted, decoded_log, returned, stdout_pts, released, twin >>

\* main: avcodec_receive_frame returns EAGAIN or EOF
ReceiveAgain ==
    /\ pc = "receive"
    /\ pc' = "read"
    /\ LeaveLoopBody
    /\ UNCHANGED << config, retval, ctx, frame_count, input_frame_count, nals, source,
                    enc_held, sinks, history, released, twin >>

\* A plausible slip: a failed decode still takes an output frame index.
ReceiveErrorTakesIndex ==
    /\ pc = "receive"
    /\ dec_held > 0
    /\ dec_held' = dec_held - 1
    /\ tally' = [tally EXCEPT !.decode = @ + 1]
    /\ pc' = "read"
    /\ frame_count' = frame_count + 1
    /\ LeaveLoopBody
    /\ UNCHANGED << config, retval, ctx, input_frame_count, nals,
                    pkts_read, video_pkts, enc_held, sinks,
                    submitted, decoded_log, returned, stdout_pts, released, twin >>

\* main: avcodec_receive_frame fails; the frame it was decoding is lost
ReceiveError ==
    /\ pc = "receive"
    /\ dec_held > 0
    /\ dec_held' = dec_held - 1
    /\ tally' = [tally EXCEPT !.decode = @ + 1]
    /\ pc' = "read"
    /\ LeaveLoopBody
    /\ UNCHANGED << config, retval, ctx, frame_count, input_frame_count, nals,
                    pkts_read, video_pkts, enc_held, sinks,
                    submitted, decoded_log, returned, stdout_pts, released, twin >>

\* main: a decoded frame that is skipped
SkipFrame ==
    /\ pc = "receive"
    /\ dec_held > 0
    /\ ~should_process(skip_frames, input_frame_count)
    /\ dec_held' = dec_held - 1
    /\ decoded_log' = Append(decoded_log, "drop")
    /\ input_frame_count' = input_frame_count + 1
    /\ UNCHANGED << config, pc, retval, ctx, frame_count, nals, pkt_pts, pkt_dts,
                    pkts_read, video_pkts, enc_held, sinks, submitted, returned,
                    stdout_pts, tally, released, twin >>

\* prepare_for_encoding: the fields of enc_pic it sets (sliceType is not one)
\* planes are offsets from ctx->scaled_buffer
prepare_for_encoding(c, pts) ==
    [c EXCEPT !.planes = << 0,
                            OUTPUT_WIDTH * OUTPUT_HEIGHT,
                            (OUTPUT_WIDTH * OUTPUT_HEIGHT)
                                + ((OUTPUT_WIDTH * OUTPUT_HEIGHT) \div 4) >>,
              !.stride = << OUTPUT_WIDTH, OUTPUT_WIDTH \div 2, OUTPUT_WIDTH \div 2 >>,
              !.pic_pts = pts]

\* main: "if (frame_count == 0) ctx.enc_pic->sliceType = X265_TYPE_IDR"
ForceKeyframeAtStart(c, f_count) ==
    [c EXCEPT !.sliceType = IF f_count = 0 THEN "IDR" ELSE @]

\* process_frame_with_swscale: sws_scale is given the planes of the decoded
\* frame, which has the decoder's picture size, and reads from them the
\* region the scaler was built for in init_decoder: INPUT_WIDTH/2 columns of
\* INPUT_HEIGHT rows
\* A plausible slip: the second chroma plane placed as if the first one
\* took half the luma size.
dst_data_half_chroma ==
    << 0,
       OUTPUT_WIDTH * OUTPUT_HEIGHT,
       (OUTPUT_WIDTH * OUTPUT_HEIGHT) + ((OUTPUT_WIDTH * OUTPUT_HEIGHT) \div 2) >>

\* process_frame_with_swscale: dst_data, as offsets from ctx->scaled_buffer
dst_data ==
    << 0,
       OUTPUT_WIDTH * OUTPUT_HEIGHT,
       (OUTPUT_WIDTH * OUTPUT_HEIGHT) + ((OUTPUT_WIDTH * OUTPUT_HEIGHT) \div 4) >>

\* process_frame_with_swscale: dst_linesize
dst_linesize == << OUTPUT_WIDTH, OUTPUT_WIDTH \div 2, OUTPUT_WIDTH \div 2 >>

process_frame_with_swscale(c) ==
    [ frame_width |-> c.width, frame_height |-> c.height,
      read_cols |-> INPUT_WIDTH \div 2, read_rows |-> INPUT_HEIGHT,
      dst_data |-> dst_data, dst_linesize |-> dst_linesize ]

\* A plausible slip: frame_count++ inside "if (nal_count > 0)".
frame_count_after_units(f_count, nal_count) ==
    IF nal_count > 0 THEN f_count + 1 ELSE f_count

\* main: "frame_count++" once the frame is encoded, whatever nal_count is
frame_count_after(f_count, nal_count) == f_count + 1

\* main: one decoded frame that is processed: resample, stamp, encode and,
\* when the encoder returns units, write them
ProcessFrame ==
    /\ pc = "receive"
    /\ dec_held > 0
    /\ should_process(skip_frames, input_frame_count)
    /\ dec_held' = dec_held - 1
    /\ decoded_log' = Append(decoded_log, "process")
    \* fp is frame->pts; tf, tp, td are the frame and packet timestamps the
    \* twin run is given for this frame, tts the timestamps it makes of them
    /\ \E fp \in PtsVals,
          tts \in { FrameTimestamps(tf, tp, td, input_frame_count, frame_count,
                                    timestamp_increment(skip_frames)) :
                      tf \in PtsVals, tp \in PtsVals, td \in PtsVals } :
        LET inc == timestamp_increment(skip_frames)
            ts  == FrameTimestamps(fp, pkt_pts, pkt_dts, input_frame_count, frame_count, inc)
            pic == ForceKeyframeAtStart(prepare_for_encoding(ctx, ts.output_pts), frame_count)
        IN
        /\ stdout_pts' = ts.input_pts
        /\ submitted' = Append(submitted,
              [pts |-> pic.pic_pts, sliceType |-> pic.sliceType, pos |-> Len(decoded_log),
               sws |-> process_frame_with_swscale(ctx),
               planes |-> pic.planes, stride |-> pic.stride])
        /\ \/ \* x265_encoder_encode fails: break out of the receive loop
              /\ tally' = [tally EXCEPT !.encode = @ + 1]
              /\ ctx' = pic
              /\ twin' = [twin EXCEPT !.submitted = Append(@, tts.output_pts),
                                      !.stdout_pts = tts.input_pts]
              /\ pc' = "read"
              /\ LeaveLoopBody
              /\ UNCHANGED << frame_count, input_frame_count, nals, enc_held, sinks,
                              returned >>
           \/ \* the encoder keeps the picture and returns no unit
              /\ nals' = <<>>
              /\ enc_held' = enc_held + 1
              /\ ctx' = pic
              /\ twin' = [twin EXCEPT !.submitted = Append(@, tts.output_pts),
                                      !.stdout_pts = tts.input_pts]
              /\ frame_count' = frame_count_after(frame_count, 0)
              /\ input_frame_count' = input_frame_count + 1
              /\ UNCHANGED << pc, sinks, tally, returned, pkt_pts, pkt_dts >>
           \/ \* the encoder returns the units of one access unit
              \E units \in AccessUnits :
                 /\ nals' = units
                 /\ returned' = Append(returned, units)
                 /\ UNCHANGED << enc_held, pkt_pts, pkt_dts >>
                 /\ frame_count' = frame_count_after(frame_count, Len(units))
                 /\ input_frame_count' = input_frame_count + 1
                 /\ pc' = pc
                 /\ IF mp4_output = 1
                    THEN \E o \in WriteOutcomes :
                         LET w  == write_nals_to_mp4(ctx.next_pts, mux_calls, units,
                                                  ts.output_pts, is_keyframe(units), o)
                             tw == write_nals_to_mp4(twin.next_pts, twin.calls, units,
                                                  tts.output_pts, is_keyframe(units), o)
                         IN  /\ ctx' = [pic EXCEPT !.next_pts = w.next_pts]
                             /\ mux_calls' = w.calls
                             /\ twin' = [submitted |-> Append(twin.submitted, tts.output_pts),
                                         calls |-> tw.calls, next_pts |-> tw.next_pts,
                                         stdout_pts |-> tts.input_pts]
                             /\ tally' = [tally EXCEPT !.sink = IF w.ret < 0 THEN @ + 1 ELSE @]
                             /\ UNCHANGED out_file
                    ELSE /\ out_file' = out_file \o RawBytes(units)
                         /\ ctx' = pic
                         /\ twin' = [twin EXCEPT !.submitted = Append(@, tts.output_pts),
                                      !.stdout_pts = tts.input_pts]
                         /\ UNCHANGED << mux_calls, tally >>
    /\ UNCHANGED << config, retval, pkts_read, video_pkts, released >>

(* -------------------------------- flush -------------------------------- *)
\* A plausible slip: the flush loop reuses ctx.next_pts as it stands.
FlushPtsStale(npts, inc) == npts

\* main: timestamp handed to write_nals_to_mp4 by the flush loop
FlushPts(npts, inc) == npts + inc

\* main: the flush loop's own update of ctx.next_pts after the write
FlushAdvance(npts, inc) == npts + inc

\* main: a flush call that ends the loop (ret <= 0): the encoder is empty,
\* or it fails
FlushDone ==
    /\ pc = "flush"
    /\ \/ enc_held = 0     \* ret = 0
       \/ enc_held >= 0    \* ret < 0
    /\ pc' = "cleanup"
    /\ retval' = 0
    /\ UNCHANGED << config, ctx, locals, source, enc_held, sinks, history,
                    released, twin >>

\* A plausible slip: the flush loop drains the encoder and drops the units.
FlushUnitsDropped ==
    /\ pc = "flush"
    /\ enc_held > 0
    /\ enc_held' = enc_held - 1
    /\ \E units \in AccessUnits :
          /\ nals' = units
          /\ returned' = Append(returned, units)
    /\ tally' = [tally EXCEPT !.flushed = @ + 1]
    /\ UNCHANGED << config, pc, retval, ctx, frame_count, input_frame_count, pkt_pts,
                    pkt_dts, source, sinks, submitted, decoded_log, stdout_pts, released,
                    twin >>

\* main: a flush call that returns the units of one buffered picture
FlushUnits ==
    /\ pc = "flush"
    /\ enc_held > 0
    /\ enc_held' = enc_held - 1
    /\ \E units \in AccessUnits :
          /\ nals' = units
          /\ returned' = Append(returned, units)
          /\ IF mp4_output = 1
             THEN \E o \in WriteOutcomes :
                  LET inc == timestamp_increment(skip_frames)
                      w  == write_nals_to_mp4(ctx.next_pts, mux_calls, units,
                                           FlushPts(ctx.next_pts, inc), FALSE, o)
                      tw == write_nals_to_mp4(twin.next_pts, twin.calls, units,
                                           FlushPts(twin.next_pts, inc), FALSE, o)
                  IN  /\ ctx' = [ctx EXCEPT !.next_pts = FlushAdvance(w.next_pts, inc)]
                      /\ mux_calls' = w.calls
                      /\ twin' = [twin EXCEPT !.calls = tw.calls,
                                              !.next_pts = FlushAdvance(tw.next_pts, inc)]
                      /\ tally' = [tally EXCEPT !.sink = IF w.ret < 0 THEN @ + 1 ELSE @,
                                                !.flushed = @ + 1]
                      /\ UNCHANGED out_file
             ELSE /\ out_file' = out_file \o RawBytes(units)
                  /\ tally' = [tally EXCEPT !.flushed = @ + 1]
                  /\ UNCHANGED << ctx, mux_calls, twin >>
    /\ UNCHANGED << config, pc, retval, frame_count, input_frame_count, pkt_pts, pkt_dts,
                    source, submitted, decoded_log, stdout_pts, released >>

(* ------------------------------- cleanup ------------------------------- *)
\* cleanup: the fields it releases when they are not NULL, in its order
cleanup_order ==
    << "encoder", "encoder_params", "enc_pic", "frame", "pkt", "decoder_ctx",
       "fmt_ctx", "sws_ctx", "scaled_buffer", "output_file", "pb", "ofmt_ctx",
       "extradata" >>

\* A plausible slip: the output-mode test inverted.
WritesTrailerWhenRaw(c, mp4) == c.ofmt_ctx # NULL /\ mp4 = 0 /\ c.pb # NULL

\* cleanup: "if (ctx->mp4_output && ctx->ofmt_ctx->pb) av_write_trailer"
WritesTrailer(c, mp4) == c.ofmt_ctx # NULL /\ mp4 = 1 /\ c.pb # NULL

\* cleanup: pb is closed only inside "if (ctx->ofmt_ctx)"
cleanup_releases(c, f) ==
    /\ c[f] # NULL
    /\ f = "pb" => c.ofmt_ctx # NULL

\* cleanup, then main returns retval
cleanup ==
    /\ pc = "cleanup"
    /\ released' = released \o SelectSeq(cleanup_order, LAMBDA f : cleanup_releases(ctx, f))
    /\ mux_calls' = IF WritesTrailer(ctx, mp4_output)
                    THEN Append(mux_calls, [op |-> "write_trailer"])
                    ELSE mux_calls
    /\ twin' = [twin EXCEPT !.calls = IF WritesTrailer(ctx, mp4_output)
                                      THEN Append(@, [op |-> "write_trailer"]) ELSE @]
    /\ pc' = "done"
    /\ UNCHANGED << config, retval, ctx, locals, source, enc_held, out_file, history >>

(* --------------------------- specification ----------------------------- *)
Next ==
    \/ init_decoder
    \/ init_encoder
    \/ init_mp4_muxer
    \/ OpenRawOutput
    \/ x265_encoder_headers
    \/ write_hevc_headers_to_mp4
    \/ WriteHeadersRaw
    \/ ReadEof
    \/ ReadOtherStream
    \/ ReadVideoPacket
    \/ ReceiveAgain
    \/ ReceiveError
    \/ SkipFrame
    \/ ProcessFrame
    \/ FlushDone
    \/ FlushUnits
    \/ cleanup

Spec == Init /\ [][Next]_vars

\* The run is scheduled by one thread: every step that main can take is
\* eventually taken.
FairSpec == Spec /\ WF_vars(Next)

(* --------------------- the timestamp product, by itself ---------------- *)
\* Numbers beyond 16 bits are kept as << high, low >> with value
\* high * 65536 + low and 0 <= low < 65536, so that products past 2^31 can
\* be written down.
Half == 65536

\* the product k * inc as it is in the integers (0 <= k < 2^31, 0 < inc < 2^15)
Product(k, inc) ==
    << (k \div Half) * inc + ((k % Half) * inc) \div Half, ((k % Half) * inc) % Half >>

\* an int holds the pair when its high part is in -2^15 .. 2^15 - 1
FitsInt(pair) == pair[1] >= -32768 /\ pair[1] < 32768

\* the pair cut to the 32 bits of an int, two's complement
WrapInt(pair) == << ((pair[1] + 32768) % Half) - 32768, pair[2] >>

\* main: "int64_t output_pts = frame_count * timestamp_increment", both
\* operands int: the product is an int product, widened afterwards. When it
\* does not fit an int the behaviour is undefined; a build either keeps the
\* low 32 bits or happens to multiply in a wider register.
output_pts_values(f_count, inc) ==
    IF FitsInt(Product(f_count, inc))
    THEN { Product(f_count, inc) }
    ELSE { WrapInt(Product(f_count, inc)), Product(f_count, inc) }

\* the largest int
IntMax == 2147483647

\* values of frame_count from which the product is followed: the start of a
\* run, and twenty frames before the last one whose product fits an int
\* (some 12 hours into a run)
FrameStarts(inc) == {0, IntMax \div inc - 20}

TimestampProbe(skip, k, pts, before) ==
    [ kind |-> "timestamp", skip_frames |-> skip, frame_count |-> k, steps |-> 0,
      output_pts |-> pts, previous |-> before ]

TimestampInit ==
    /\ InitRun
    /\ mp4_output = 0
    /\ \E k \in FrameStarts(timestamp_increment(skip_frames)) :
       \E pts \in output_pts_values(k, timestamp_increment(skip_frames)) :
          probe = TimestampProbe(skip_frames, k, pts, pts)

\* main: the next processed frame: frame_count++ and its timestamp
TimestampNext ==
    /\ probe.steps < MaxFrames
    /\ \E pts \in output_pts_values(probe.frame_count + 1,
                                      timestamp_increment(skip_frames)) :
          probe' = [ TimestampProbe(skip_frames, probe.frame_count + 1, pts,
                                    probe.output_pts)
                        EXCEPT !.steps = probe.steps + 1 ]
    /\ UNCHANGED << skip_frames, mp4_output, pc, retval, ctx, locals, source, enc_held,
                    sinks, history, released, twin >>

TimestampSpec == TimestampInit /\ [][TimestampNext]_vars

(* ------------------ the resampler's index mapping, by itself ----------- *)
\* A plausible slip: the floor is not clamped.
SourceIndexUnclamped(x, region_extent, dest_extent) ==
    (x * region_extent) \div dest_extent

\* The source index of destination index x: the floor of
\* x * region_extent / dest_extent, clamped so that the index after it is at
\* most region_extent - 1.
SourceIndex(x, region_extent, dest_extent) ==
    LET floor == (x * region_extent) \div dest_extent
    IN  IF floor + 1 > region_extent - 1 THEN region_extent - 2 ELSE floor

\* (region extent, destination extent) pairs: luma and chroma of the program,
\* and every small pair with two source samples or more
ExtentPairs ==
    { << INPUT_WIDTH \div 2, OUTPUT_WIDTH >>, << INPUT_HEIGHT, OUTPUT_HEIGHT >>,
      << INPUT_WIDTH \div 4, OUTPUT_WIDTH \div 2 >>,
      << INPUT_HEIGHT \div 2, OUTPUT_HEIGHT \div 2 >> }
    \cup ((2..MaxExtent) \X (1..MaxExtent))

ResampleProbe(pair, x) ==
    [ kind |-> "resample", region_extent |-> pair[1], dest_extent |-> pair[2], x |-> x,
      floor |-> (x * pair[1]) \div pair[2],
      index |-> SourceIndex(x, pair[1], pair[2]) ]

ResampleInit ==
    /\ InitRun
    /\ skip_frames = 0 /\ mp4_output = 0
    /\ \E pair \in ExtentPairs : probe = ResampleProbe(pair, 0)

\* the loop over the destination indexes of one axis
ResampleNext ==
    /\ probe.x + 1 < probe.dest_extent
    /\ probe' = ResampleProbe(<< probe.region_extent, probe.dest_extent >>, probe.x + 1)
    /\ UNCHANGED << skip_frames, mp4_output, pc, retval, ctx, locals, source, enc_held,
                    sinks, history, released, twin >>

ResampleSpec == ResampleInit /\ [][ResampleNext]_vars

TypeOK ==
    /\ pc \in {"init_decoder", "init_encoder", "init_output", "headers", "write_headers",
               "read", "receive", "flush", "cleanup", "done"}
    /\ retval \in {0, 1}
    /\ frame_count \in 0..MaxPackets
    /\ input_frame_count \in 0..MaxPackets
    /\ dec_held \in 0..MaxPackets
    /\ enc_held \in 0..MaxPackets
    /\ tally.failed \in {"none", "init_decoder", "init_encoder", "init_output",
                         "headers", "write_headers"}

(* ------------------------- derived observations ------------------------ *)
IsPacket(c) == c.op = "write_frame"
IsHeaderOk(c) == c.op = "write_header" /\ c.ret = 0
IsTrailer(c) == c.op = "write_trailer"

\* the packets passed to av_interleaved_write_frame, in order
Packets == SelectSeq(mux_calls, IsPacket)

\* the run got past the main loop
ReachedEndOfInput == pc = "flush" \/ (pc \in {"cleanup", "done"} /\ retval = 0)

\* the packets passed to the container writer by the flush loop, in order
FlushPackets ==
    IF ReachedEndOfInput
    THEN SelectSeq(SubSeq(mux_calls, tally.eof_calls + 1, Len(mux_calls)), IsPacket)
    ELSE <<>>

\* the packets passed to the container writer by the main loop, in order
MainPackets ==
    IF ReachedEndOfInput
    THEN SelectSeq(SubSeq(mux_calls, 1, tally.eof_calls), IsPacket)
    ELSE Packets

Increment == timestamp_increment(skip_frames)

(* ------------------------------- claims -------------------------------- *)

\* C1: in container mode the header is written at most once and no packet is
\* passed to the container writer unless avformat_write_header succeeded
\* earlier in the run, whatever unit set x265_encoder_headers returned.
C1_BootstrapBeforeData ==
    /\ Len(SelectSeq(mux_calls, LAMBDA c : c.op = "write_header")) <= 1
    /\ \A i \in 1..Len(mux_calls) :
          IsPacket(mux_calls[i]) => \E j \in 1..(i - 1) : IsHeaderOk(mux_calls[j])

\* C2: a container-mode run that reached end of input has, when main
\* returns, called av_write_trailer exactly once and as its last call to the
\* container writer; in no state does a packet follow a trailer.
C2_FinalizedOnceAfterAllPackets ==
    /\ (pc = "done" /\ mp4_output = 1 /\ ReachedEndOfInput) =>
          /\ Len(SelectSeq(mux_calls, IsTrailer)) = 1
          /\ IsTrailer(mux_calls[Len(mux_calls)])
    /\ \A i \in 1..Len(mux_calls) : \A j \in 1..Len(mux_calls) :
          (IsTrailer(mux_calls[i]) /\ i < j) => ~IsPacket(mux_calls[j])
    /\ pc # "done" => Len(SelectSeq(mux_calls, IsTrailer)) = 0

\* C2 witness: a finished container-mode run that wrote a packet in the main
\* loop and a packet in the flush loop before the trailer.
C2_Witness ==
    /\ pc = "done" /\ mp4_output = 1 /\ retval = 0
    /\ Len(MainPackets) >= 1 /\ Len(FlushPackets) >= 1
    /\ IsTrailer(mux_calls[Len(mux_calls)])

\* C3: the k-th picture handed to the encoder (k from 0) carries timestamp
\* k * increment.
C3_SubmittedArithmetic ==
    \A k \in 1..Len(submitted) : submitted[k].pts = (k - 1) * Increment

\* C4: in a container-mode run with no failed encode and no failed sink
\* write, the i-th packet written by the flush loop carries L + i * increment,
\* L being the timestamp of the last packet written before the flush.
C4_FlushContinuesIncrement ==
    (mp4_output = 1 /\ tally.encode = 0 /\ tally.sink = 0 /\ Len(MainPackets) >= 1) =>
        \A i \in 1..Len(FlushPackets) :
            FlushPackets[i].pts = MainPackets[Len(MainPackets)].pts + i * Increment

\* C5: every packet passed to the container writer has dts = pts, and its
\* timestamp is strictly greater than that of every packet passed before it.
C5_PacketTimesIncrease ==
    \A i \in 1..Len(Packets) :
        /\ Packets[i].dts = Packets[i].pts
        /\ \A j \in 1..(i - 1) : Packets[j].pts < Packets[i].pts

\* C5 witness: main-loop packets followed by a flush packet, after an encode
\* call that returned no unit.
C5_Witness ==
    /\ pc = "done" /\ mp4_output = 1
    /\ Len(MainPackets) >= 1 /\ Len(FlushPackets) >= 1
    /\ Len(submitted) > Len(MainPackets)

\* C6: the run fed other source timestamps (twin) submits the same timestamp
\* sequence to the encoder and makes the same calls, with the same
\* timestamps, to the container writer.
C6_TimestampsIndependentOfSource ==
    /\ twin.calls = mux_calls
    /\ Len(twin.submitted) = Len(submitted)
    /\ \A k \in 1..Len(submitted) : twin.submitted[k] = submitted[k].pts

\* C6 witness: the two runs logged different source timestamps for a frame,
\* and both have submitted frames and written packets.
C6_Witness ==
    /\ twin.stdout_pts # stdout_pts
    /\ stdout_pts # AV_NOPTS_VALUE
    /\ Len(submitted) >= 2
    /\ Len(Packets) >= 2

\* C7: in decimated mode a decoded frame is dropped exactly when its 0-based
\* position among the decoded frames is odd.
C7_DropsOddPositions ==
    skip_frames = 1 =>
        \A p \in 1..Len(decoded_log) :
            (decoded_log[p] = "drop") <=> ((p - 1) % 2 = 1)

\* C8: at full rate, when the flush of the encoder begins after a run with no
\* decode error and no encode error, every frame of the input (one per video
\* unit read) has been submitted to the encoder.
C8_AllFramesSubmitted ==
    (pc = "flush" /\ skip_frames = 0 /\ tally.decode = 0 /\ tally.encode = 0) =>
        Len(submitted) = video_pkts

\* C9: once the encoder has failed on a submitted frame the run is aborting:
\* main is in cleanup or has returned, with a non-zero status.
C9_EncodeErrorAborts ==
    tally.encode > 0 => (pc \in {"cleanup", "done"} /\ retval = 1)

\* C10: once a sink write has failed the run is aborting with status 1; so
\* exit status 0 is returned only by runs in which no sink write failed.
C10_SinkFailureIsFatal ==
    tally.sink > 0 => (pc \in {"cleanup", "done"} /\ retval = 1)

\* C11: a step in which a decode fails (avcodec_send_packet or
\* avcodec_receive_frame) submits nothing, writes nothing, leaves the output
\* frame index and the exit status alone and returns main to av_read_frame;
\* and in runs without an encode error the submitted timestamps stay
\* k * increment, whatever decode errors happened in between.
C11_DecodeErrorIsLocal ==
    /\ [][ tally'.decode > tally.decode =>
             /\ pc' = "read" /\ retval' = retval
             /\ frame_count' = frame_count
             /\ input_frame_count' = input_frame_count
             /\ submitted' = submitted /\ decoded_log' = decoded_log
             /\ mux_calls' = mux_calls /\ out_file' = out_file ]_vars
    /\ [](tally.encode = 0 =>
             \A k \in 1..Len(submitted) : submitted[k].pts = (k - 1) * Increment)

\* C11 witness: three video units, one of the first two failed to decode, and
\* the frame of the third has just been submitted with the next timestamp.
C11_Witness ==
    /\ tally.decode = 1 /\ tally.encode = 0
    /\ video_pkts = 3 /\ pc = "receive" /\ dec_held = 0
    /\ Len(submitted) = 2
    /\ submitted[2].pts = Increment

C13_ResamplerInputHoldsRegion ==
    /\ \A k \in 1..Len(submitted) :
          /\ submitted[k].sws.read_cols <= submitted[k].sws.frame_width
          /\ submitted[k].sws.read_rows <= submitted[k].sws.frame_height
    /\ (ctx.decoder_ctx = LIVE /\ ctx.width > 0
          /\ (ctx.width < INPUT_WIDTH \div 2 \/ ctx.height < INPUT_HEIGHT))
       => (submitted = <<>> /\ (pc = "done" => retval = 1))

\* the units the encoder has handed back so far, one after the other
ReturnedUnits == Flatten(returned)

\* the byte stream made of 00 00 00 01 and the payload, for each unit in turn
RECURSIVE MarkedStream(_)
MarkedStream(units) ==
    IF units = <<>> THEN <<>>
    ELSE <<0, 0, 0, 1>> \o Head(units) \o MarkedStream(Tail(units))

C15_KeyFlagIffIrapUnit ==
    \A i \in 1..Len(Packets) :
        Packets[i].key <=>
            \E j \in 1..Len(Packets[i].units) :
                LET type == (Packets[i].units[j][1] \div 2) % 64
                IN  type >= 16 /\ type <= 21

\* the calls of avformat_write_header, in order
HeaderCalls == SelectSeq(mux_calls, LAMBDA c : c.op = "write_header")

\* the units x265_encoder_headers handed back
BootstrapUnits == IF returned = <<>> THEN <<>> ELSE returned[1]

\* a length-prefixed block read back: the payloads it holds, in order
RECURSIVE ParseLengthPrefixed(_)
ParseLengthPrefixed(bytes) ==
    IF Len(bytes) < 4 THEN <<>>
    ELSE LET size == bytes[1] * 16777216 + bytes[2] * 65536 + bytes[3] * 256 + bytes[4]
         IN  IF Len(bytes) < 4 + size THEN <<>>
             ELSE << SubSeq(bytes, 5, 4 + size) >>
                     \o ParseLengthPrefixed(SubSeq(bytes, 5 + size, Len(bytes)))

\* the sum of (length + 4) over the units
RECURSIVE PrefixedSize(_)
PrefixedSize(units) ==
    IF units = <<>> THEN 0 ELSE Len(Head(units)) + 4 + PrefixedSize(Tail(units))

\* C16: the metadata block the container has in its stream parameters when
\* avformat_write_header is called is, for each bootstrap unit in order, the
\* unit's length as four bytes, highest first, and then its payload: its size
\* is the sum of (length + 4), each unit sits at the offset the units before
\* it leave, and reading the block back gives the bootstrap units. The block
\* is in the stream parameters whenever the header call has been made.
C16_ExtradataIsLengthPrefixed ==
    /\ \A i \in 1..Len(HeaderCalls) :
          LET block == HeaderCalls[i].extradata
              units == BootstrapUnits
          IN  /\ Len(block) = PrefixedSize(units)
              /\ ParseLengthPrefixed(block) = units
              /\ \A k \in 1..Len(units) :
                    LET at == PrefixedSize(SubSeq(units, 1, k - 1))
                        n  == Len(units[k])
                    IN  /\ SubSeq(block, at + 1, at + 4) =
                              << n \div 16777216, (n \div 65536) % 256,
                                 (n \div 256) % 256, n % 256 >>
                        /\ SubSeq(block, at + 5, at + 4 + n) = units[k]
              /\ ctx.codecpar_extradata = block
    /\ ctx.codecpar_extradata # <<>> => HeaderCalls # <<>>

\* C16 witness: the header has been written with a block made from three
\* bootstrap units of different lengths.
C16_Witness ==
    /\ Len(HeaderCalls) = 1 /\ HeaderCalls[1].ret = 0
    /\ Len(BootstrapUnits) = 3
    /\ Len(BootstrapUnits[1]) # Len(BootstrapUnits[2])
    /\ Len(HeaderCalls[1].extradata) = 18

\* the flush call of this step handed back a unit set
FlushReturnsUnits == pc = "flush" /\ Len(returned') = Len(returned) + 1

\* the unit set the flush call of this step handed back was written: to the
\* raw file behind the marker of each unit, or to the container as one
\* packet (unless the packet buffer could not be had, which counts as a
\* failed sink write)
FlushResultWritten ==
    LET units == returned'[Len(returned')]
    IN  IF mp4_output = 0
        THEN out_file' = out_file \o MarkedStream(units)
        ELSE \/ tally'.sink = tally.sink + 1 /\ mux_calls' = mux_calls
             \/ /\ Len(mux_calls') = Len(mux_calls) + 1
                /\ mux_calls'[Len(mux_calls')].op = "write_frame"
                /\ mux_calls'[Len(mux_calls')].units = units

\* the sink is still open: no trailer written, file and I/O context not closed
SinkOpen ==
    /\ \A i \in 1..Len(mux_calls) : mux_calls[i].op # "write_trailer"
    /\ \A i \in 1..Len(released) : released[i] \notin {"output_file", "pb", "ofmt_ctx"}

\* C17: after the end of the input, every flush call that hands back units is
\* followed by another flush call, and its units are written, in the order
\* handed back, while the sink is still open; the loop is left only by a
\* call that hands back nothing, and for cleanup; and, the encoder holding
\* finitely many frames, a run that has reached the flush loop reaches the
\* end of cleanup and returns.
C17_FlushDrainsAndEnds ==
    /\ [][ FlushReturnsUnits => (pc' = "flush" /\ FlushResultWritten /\ SinkOpen) ]_vars
    /\ [][ (pc = "flush" /\ pc' # "flush") =>
              (pc' = "cleanup" /\ returned' = returned /\ mux_calls' = mux_calls
                 /\ out_file' = out_file) ]_vars
    /\ (pc = "flush") ~> (pc = "done")

\* C17 witness: a run has returned after two flush calls handed back units.
C17_Witness ==
    /\ pc = "done" /\ retval = 0
    /\ tally.flushed = 2 /\ enc_held = 0

\* C18: for every destination index of every (region, destination) pair,
\* the source index and the one after it lie in 0 .. region_extent - 1: for
\* luma (2880 to 200), for chroma (1440 to 100) and for the other pairs with
\* a region of two samples or more.
C18_SourceIndexInRegion ==
    /\ probe.x \in 0..(probe.dest_extent - 1)
    /\ probe.index >= 0
    /\ probe.index + 1 <= probe.region_extent - 1

\* C18 witness: the clamp has acted on the last destination index of an
\* enlarging pair.
C18_Witness ==
       /\ probe.floor + 1 > probe.region_extent - 1
       /\ probe.index = probe.region_extent - 2
       /\ probe.x = probe.dest_extent - 1

\* C19: for every value the frame counter reaches, the timestamp of the
\* frame is the product of the counter and the increment as it is in the
\* integers, not cut to 32 bits; so the timestamps never decrease.
C19_TimestampIsExactProduct ==
    /\ probe.output_pts = Product(probe.frame_count, timestamp_increment(skip_frames))
    /\ \/ probe.previous[1] < probe.output_pts[1]
       \/ /\ probe.previous[1] = probe.output_pts[1]
          /\ probe.previous[2] <= probe.output_pts[2]

\* C20: the encoder is configured once, in init_encoder, before any frame is
\* submitted, and never again; the frame rate it is given and the timestamp
\* increment multiply to OUTPUT_TIMEBASE in both modes (50 and 960, 25 and
\* 1920); and both come from the decimation flag, which never changes.
C20_RateMatchesIncrement ==
    /\ [](ctx.encoder = LIVE =>
            /\ ctx.fps * timestamp_increment(skip_frames) = OUTPUT_TIMEBASE
            /\ << ctx.fps, timestamp_increment(skip_frames) >> =
                  IF skip_frames = 1 THEN << 25, 1920 >> ELSE << 50, 960 >>)
    /\ [](submitted # <<>> => ctx.encoder = LIVE)
    /\ [][ctx'.fps # ctx.fps => (pc = "init_encoder" /\ submitted = <<>>)]_vars
    /\ [][skip_frames' = skip_frames]_vars

\* C20 witness: a decimated run has submitted two frames, 1920 apart, to an
\* encoder configured for 25 frames per second.
C20_Witness ==
    /\ skip_frames = 1 /\ ctx.encoder = LIVE /\ ctx.fps = 25
    /\ Len(submitted) = 2 /\ submitted[2].pts - submitted[1].pts = 1920

\* C21: a frame is submitted to the encoder with slice type IDR exactly when
\* it is output frame 0 (timestamp 0); every later frame is submitted with
\* the automatic slice type.
C21_ForcedKeyframeOnlyAtStart ==
    \A k \in 1..Len(submitted) :
        /\ submitted[k].sliceType \in {"IDR", "AUTO"}
        /\ submitted[k].sliceType = "IDR" <=> submitted[k].pts = 0

\* C22: in container mode, the encoder handing pictures back in the order it
\* was given them, the j-th packet holds the units of the j-th submitted
\* frame and carries the timestamp that frame was submitted with, also when
\* the encoder has kept earlier frames; so the first packet carries 0.
\* (Stated for runs in which no encode and no sink write failed, where
\* every submitted frame is coded and every unit set becomes a packet.)
C22_PacketCarriesFrameTimestamp ==
    (mp4_output = 1 /\ tally.encode = 0 /\ tally.sink = 0) =>
        \A j \in 1..Len(Packets) :
            /\ j <= Len(submitted)
            /\ Packets[j].pts = submitted[j].pts

\* this step submits a frame and the encoder, without failing, returns no unit
SubmitReturnsNothing ==
    /\ Len(submitted') = Len(submitted) + 1
    /\ returned' = returned
    /\ tally'.encode = tally.encode

\* C23: a submit that returns no unit writes nothing (no container call, no
\* byte of the raw file), advances the output frame index by one, so that the
\* next frame's timestamp is one increment after this frame's, and leaves
\* main in the receive loop with its exit status untouched, where the next
\* frame is taken.
C23_EmptyResultAdvances ==
    [][ SubmitReturnsNothing =>
          /\ mux_calls' = mux_calls /\ out_file' = out_file
          /\ frame_count' = frame_count + 1
          /\ frame_count' * Increment = submitted'[Len(submitted')].pts + Increment
          /\ pc' = "receive" /\ retval' = retval ]_vars

\* C23 witness: two submits returned nothing, nothing has been written past
\* the headers, and the second frame was stamped one increment after the first.
C23_Witness ==
    /\ Len(submitted) = 2 /\ enc_held = 2 /\ tally.encode = 0
    /\ Packets = <<>> /\ Len(returned) = 1
    /\ submitted[2].pts = submitted[1].pts + Increment
    /\ frame_count = 2

\* C24: av_write_trailer is called only after avformat_write_header has
\* succeeded in the same run; in particular a run that is aborted because
\* x265_encoder_headers or the writing of the headers failed never calls it.
C24_TrailerOnlyAfterHeader ==
    /\ \A i \in 1..Len(mux_calls) :
          IsTrailer(mux_calls[i]) => \E j \in 1..(i - 1) : IsHeaderOk(mux_calls[j])
    /\ tally.failed \in {"headers", "write_headers"} =>
          \A i \in 1..Len(mux_calls) : ~IsTrailer(mux_calls[i])

\* C25: on every path, whatever has failed, no resource is released twice:
\* cleanup does not release what an initializer has released already.
C25_ReleasedAtMostOnce ==
    \A i \in 1..Len(released) : \A j \in 1..Len(released) :
        released[i] = released[j] => i = j

\* sws_getContext / x265: the rows of each plane of an OUTPUT_WIDTH x
\* OUTPUT_HEIGHT picture in planar 4:2:0 (chroma halved, rounded up)
plane_rows == << OUTPUT_HEIGHT, -((-OUTPUT_HEIGHT) \div 2), -((-OUTPUT_HEIGHT) \div 2) >>

\* The byte after the last one of plane i, laid out from offset data[i] in
\* rows of linesize[i] bytes
PlaneEnd(data, linesize, i) == data[i] + linesize[i] * plane_rows[i]

\* C26: the output buffer has W*H + 2*(W*H/4) bytes; for every frame the
\* luma plane is [0, W*H), the first chroma plane [W*H, W*H + W*H/4), the
\* second the W*H/4 bytes after it, with strides W, W/2, W/2; the three
\* ranges are pairwise disjoint and inside the allocation; and the planes and
\* strides given to the resampler are those given to the encoder.
C26_BufferLayout ==
    \A k \in 1..Len(submitted) :
        LET s    == submitted[k]
            W    == OUTPUT_WIDTH
            H    == OUTPUT_HEIGHT
            from == s.sws.dst_data
            to   == [i \in 1..3 |-> PlaneEnd(s.sws.dst_data, s.sws.dst_linesize, i)]
        IN  /\ ctx.scaled_size = W * H + 2 * ((W * H) \div 4)
            /\ s.sws.dst_linesize = << W, W \div 2, W \div 2 >>
            /\ from[1] = 0 /\ to[1] = W * H
            /\ from[2] = W * H /\ to[2] = W * H + (W * H) \div 4
            /\ from[3] = to[2] /\ to[3] = from[3] + (W * H) \div 4
            /\ \A i \in 1..3 : \A j \in 1..3 :
                   i # j => (to[i] <= from[j] \/ to[j] <= from[i])
            /\ \A i \in 1..3 : 0 <= from[i] /\ from[i] < to[i] /\ to[i] <= ctx.scaled_size
            /\ s.planes = s.sws.dst_data
            /\ s.stride = s.sws.dst_linesize

C26_Witness ==
    /\ Len(submitted) >= 2
    /\ tally.encode = 0 /\ frame_count = 2
    /\ ctx.scaled_size = 60000
    /\ submitted[2].planes = << 0, 40000, 50000 >>
    /\ submitted[2].sws.dst_data = << 0, 40000, 50000 >>
    /\ submitted[2].stride = << 200, 100, 100 >>

====
